---- MODULE Spec2Model ----
(***************************************************************************)
(* Model of plugins/travel-agent/agents/scripts/query_flights.py: the      *)
(* read-only query layer over the Flighty SQLite store and the command     *)
(* router (main) in front of it.                                           *)
(*                                                                         *)
(* The store is the program's input.  One model row stands for one         *)
(* UserFlight row together with what the FROM clauses join to it.  SQL     *)
(* NULL and Python None are the string NULL for text columns and the empty *)
(* tuple for numeric columns (a present number v is <<v>>).                *)
(***************************************************************************)
EXTENDS Integers, Sequences, FiniteSets

VARIABLES
    db,        \* the store: a sequence of UserFlight rows (with their joins)
    dbExists,  \* whether the database file exists at DEFAULT_DB_PATH
    faulty,    \* whether the store raises on every statement (schema mismatch, corruption)
    argv,      \* sys.argv[1:]
    now,       \* the system clock, datetime.now().timestamp()
    pc,        \* position of main: "start", "check_db", "execute", "exited"; "engine" for direct calls
    stdout,    \* the JSON objects printed so far
    exitCode,  \* <<>> while running, <<status>> once the process has ended
    calls,     \* Query Engine operations run by the current invocation, in order
    ret        \* value(s) returned by the latest engine call(s)

vars == <<db, dbExists, faulty, argv, now, pc, stdout, exitCode, calls, ret>>

-----------------------------------------------------------------------------
(* Bounds of the model *)

MaxRows == 3      \* UserFlight rows in a store the Identity Resolver is called on
MaxFlights == 2   \* UserFlight rows in a store the flight queries are called on
MaxTime == 2      \* timestamps range over 0..MaxTime
MaxLimit == 2     \* largest row limit passed to a query
MaxDist == 1      \* distances are 0..MaxDist hundreds of kilometres
MaxArgs == 3      \* command-line arguments after the script name

-----------------------------------------------------------------------------
(* Values *)

NULL == "NULL"
NoInt == <<>>
Some(v) == <<v>>
IsNull(x) == x = NoInt
Val(x) == x[1]

CONNECTED_FRIEND == "CONNECTED_FRIEND"
Users == {"A", "B"}
ImportSources == {NULL, "", "MANUAL", CONNECTED_FRIEND}
Times == 0..MaxTime
NullableTimes == {NoInt} \cup {Some(t) : t \in Times}

\* What the FROM clause finds for a UserFlight row: no Flight row at all, a
\* Flight row lacking an Airline or Airport row, or all four joined rows.
Joins == {"none", "flight", "full"}

RECURSIVE SeqSum(_, _)
SeqSum(f, n) == IF n = 0 THEN 0 ELSE f[n] + SeqSum(f, n - 1)

-----------------------------------------------------------------------------
(* SQL three-valued comparisons, reduced to "the WHERE clause keeps the row" *)

SqlGt(a, b) == ~IsNull(a) /\ ~IsNull(b) /\ Val(a) > Val(b)
SqlLt(a, b) == ~IsNull(a) /\ ~IsNull(b) /\ Val(a) < Val(b)
SqlTextNe(a, b) == a # NULL /\ b # NULL /\ a # b
SqlTextEq(a, b) == a # NULL /\ b # NULL /\ a = b

-----------------------------------------------------------------------------
(* Identity Resolver *)

\* WHERE importSource != 'CONNECTED_FRIEND' AND importSource IS NOT NULL AND importSource != ''
EligibleMutNoFriendFilter(r) ==
    r.importSource # NULL /\ SqlTextNe(r.importSource, "")

Eligible(r) ==
    /\ SqlTextNe(r.importSource, CONNECTED_FRIEND)
    /\ r.importSource # NULL
    /\ SqlTextNe(r.importSource, "")

\* COUNT(*) of the group of userId u
GroupCount(d, u) == Cardinality({i \in DOMAIN d : Eligible(d[i]) /\ d[i].userId = u})

\* GROUP BY userId ORDER BY COUNT(*) DESC LIMIT 1; fetchone(); row[0] if row else None.
\* The order among groups of equal count is unspecified: every first row is possible.
get_main_user_id(d) ==
    LET groups == {d[i].userId : i \in {j \in DOMAIN d : Eligible(d[j])}}
    IN  IF groups = {} THEN {NULL}
        ELSE {u \in groups : \A v \in groups : GroupCount(d, u) >= GroupCount(d, v)}

-----------------------------------------------------------------------------
(* Flight Query Engine.  A query's value keeps, for every flight it returns, *)
(* the joined row the flight record is formatted from.                       *)

\* FROM Flight f JOIN UserFlight uf JOIN Airline a JOIN Airport dep JOIN Airport arr:
\* a row lacking any of the four is dropped.  Ticket is left-joined on (flightId,
\* userId) and drops nothing; the model takes at most one Ticket per pair (pnr).
FullJoin(r) == r.join = "full"

\* FROM Flight f JOIN UserFlight uf
FlightJoin(r) == r.join # "none"

SortKey(r) == IF IsNull(r.departure) THEN -1 ELSE Val(r.departure)

Orderings(S) ==
    {s \in [1..Cardinality(S) -> S] : \A i, j \in DOMAIN s : i # j => s[i] # s[j]}

\* ORDER BY f.departureScheduleGateOriginal [DESC]: rows of equal key come in any order
OrderByMutReversed(d, S, desc) ==
    {s \in Orderings(S) :
        \A i, j \in DOMAIN s : i < j =>
            IF desc THEN SortKey(d[s[i]]) <= SortKey(d[s[j]])
                    ELSE SortKey(d[s[i]]) >= SortKey(d[s[j]])}

OrderBy(d, S, desc) ==
    {s \in Orderings(S) :
        \A i, j \in DOMAIN s : i < j =>
            IF desc THEN SortKey(d[s[i]]) >= SortKey(d[s[j]])
                    ELSE SortKey(d[s[i]]) <= SortKey(d[s[j]])}

\* LIMIT ?: SQLite puts no upper bound on the rows when the limit is negative
Limit(s, n) ==
    IF n < 0 \/ n >= Len(s) THEN s ELSE SubSeq(s, 1, n)

Fetch(d, s) == [i \in DOMAIN s |-> d[s[i]]]

Call(op, out) == [op |-> op, out |-> out]

\* WHERE clause of list_upcoming_flights
UpcomingWhereMutNoneUser(r, t, include_friends, main_user_id) ==
    IF include_friends
    THEN r.isMyFlight = 1 /\ SqlGt(r.departure, Some(t))
    ELSE /\ r.isMyFlight = 1
         /\ SqlGt(r.departure, Some(t))
         /\ (main_user_id = NULL \/ SqlTextEq(r.userId, main_user_id))
         /\ SqlTextNe(r.importSource, CONNECTED_FRIEND)

UpcomingWhereMutNoSourceFilter(r, t, include_friends, main_user_id) ==
    IF include_friends
    THEN r.isMyFlight = 1 /\ SqlGt(r.departure, Some(t))
    ELSE /\ r.isMyFlight = 1
         /\ SqlGt(r.departure, Some(t))
         /\ SqlTextEq(r.userId, main_user_id)

UpcomingWhere(r, t, include_friends, main_user_id) ==
    IF include_friends
    THEN r.isMyFlight = 1 /\ SqlGt(r.departure, Some(t))
    ELSE /\ r.isMyFlight = 1
         /\ SqlGt(r.departure, Some(t))
         /\ SqlTextEq(r.userId, main_user_id)
         /\ SqlTextNe(r.importSource, CONNECTED_FRIEND)

\* The possible executions of list_upcoming_flights(conn, limit, include_friends)
\* at clock reading t: the statements run and the value returned.
list_upcoming_flights(d, t, limit, include_friends) ==
    {[calls |-> <<Call("get_main_user_id", u), Call("list_upcoming_flights", "")>>,
      value |-> [flights |-> Fetch(d, Limit(s, limit)),
                 count |-> Len(Limit(s, limit))]] :
        <<u, s>> \in UNION {
            {<<v, o>> : o \in OrderBy(d,
                {i \in DOMAIN d : FullJoin(d[i])
                                  /\ UpcomingWhere(d[i], t, include_friends, v)},
                FALSE)} : v \in get_main_user_id(d)}}

NoFlightsMessage == "No upcoming flights found"

\* get_next_flight: list_upcoming_flights(conn, limit=1), then the first flight or the message
get_next_flight(d, t) ==
    {[calls |-> x.calls,
      value |-> IF x.value.flights # <<>>
                THEN [next_flight |-> <<x.value.flights[1]>>]
                ELSE [next_flight |-> <<>>, message |-> NoFlightsMessage]] :
        x \in list_upcoming_flights(d, t, 1, FALSE)}

\* WHERE clause of get_recent_flights
RecentWhere(r, t) ==
    r.isMyFlight = 1 /\ r.isArchived = 0 /\ SqlLt(r.departure, Some(t))

get_recent_flights(d, t, limit) ==
    {[calls |-> <<Call("get_recent_flights", "")>>,
      value |-> [recent_flights |-> Fetch(d, Limit(s, limit)),
                 count |-> Len(Limit(s, limit))]] :
        s \in OrderBy(d, {i \in DOMAIN d : FullJoin(d[i]) /\ RecentWhere(d[i], t)}, TRUE)}

\* int(total_km * 0.621371), for total_km >= 0
Miles(km) == (km * 621371) \div 1000000

\* round(total_km / 40075, 2), in hundredths (40075 is odd: no hundredth falls on a half)
Circumferences(km) == (km * 200 + 40075) \div 80150

\* CASE WHEN f.departureScheduleGateOriginal > ? THEN 1 ELSE 0 END
UpcomingCaseMutGe(r, t) ==
    IF ~IsNull(r.departure) /\ Val(r.departure) >= t THEN 1 ELSE 0

UpcomingCase(r, t) == IF SqlGt(r.departure, Some(t)) THEN 1 ELSE 0

\* COUNT(*), SUM(CASE WHEN departure > ? THEN 1 ELSE 0 END), SUM(f.distance)
\* FROM Flight f JOIN UserFlight uf WHERE uf.isMyFlight = 1.  SUM over no
\* non-NULL value is NULL; row[2] or 0.
get_flight_stats(d, t) ==
    LET rows == {i \in DOMAIN d : FlightJoin(d[i]) /\ d[i].isMyFlight = 1}
        up == [i \in DOMAIN d |->
                  IF i \in rows THEN UpcomingCase(d[i], t) ELSE 0]
        km == [i \in DOMAIN d |->
                  IF i \in rows /\ ~IsNull(d[i].distance) THEN Val(d[i].distance) ELSE 0]
        total_km == SeqSum(km, Len(d))
    IN  {[calls |-> <<Call("get_flight_stats", "")>>,
          value |-> [total_flights |-> Cardinality(rows),
                     upcoming_flights |-> IF rows = {} THEN NoInt
                                          ELSE Some(SeqSum(up, Len(d))),
                     total_distance_km |-> total_km,
                     total_distance_miles |-> Miles(total_km),
                     earth_circumferences |-> Circumferences(total_km)]]}

-----------------------------------------------------------------------------
(* Stores the engine is called on *)

Row(u, src, mine, arch, dep, dist, j, p) ==
    [userId |-> u, importSource |-> src, isMyFlight |-> mine, isArchived |-> arch,
     departure |-> dep, distance |-> dist, join |-> j, pnr |-> p]

\* A table is a bag of rows: the order of the model's sequence carries no
\* meaning (ORDER BY leaves rows of equal key in any order), so stores are
\* listed once each, rows in nondecreasing Rank.
SourceRank(src) ==
    CASE src = NULL -> 0 [] src = "" -> 1 [] src = "MANUAL" -> 2 [] OTHER -> 3

NumRank(x) == IF IsNull(x) THEN 0 ELSE Val(x) + 1

Radix == MaxTime + MaxDist + 4

Rank(r) ==
    LET digits == <<IF r.userId = "A" THEN 0 ELSE 1, SourceRank(r.importSource),
                    r.isMyFlight, r.isArchived, NumRank(r.departure),
                    IF IsNull(r.distance) THEN 0 ELSE Val(r.distance) \div 100 + 1,
                    CASE r.join = "none" -> 0 [] r.join = "flight" -> 1 [] OTHER -> 2,
                    IF r.pnr = NULL THEN 0 ELSE 1>>
        code[i \in 0..Len(digits)] ==
            IF i = 0 THEN 0 ELSE code[i - 1] * Radix + digits[i]
    IN  code[Len(digits)]

\* All stores of at most n rows drawn from R
Stores(R, n) ==
    UNION {{s \in [1..k -> R] : \A i \in 1..(k - 1) : Rank(s[i]) <= Rank(s[i + 1])} :
              k \in 0..n}

\* Rows that differ in what the Identity Resolver reads
UserRows == {Row(u, src, 1, 0, Some(MaxTime), NoInt, "full", NULL) :
                u \in Users, src \in ImportSources}

\* The number of reasons, other than its userId, for which the primary-traveller
\* listing at clock reading t leaves row r out
Defects(r, t) ==
    LET bit(b) == IF b THEN 1 ELSE 0
    IN  bit(r.isMyFlight # 1) + bit(r.join # "full")
        + bit(~SqlGt(r.departure, Some(t)))
        + bit(~SqlTextNe(r.importSource, CONNECTED_FRIEND))

\* Rows that differ in what list_upcoming_flights reads, each left out of the
\* listing at clock reading 0 for at most one reason
UpcomingRows ==
    {r \in {Row(x[1], x[2], x[3], 0, x[4], NoInt, x[5], NULL) :
              x \in Users \X ImportSources \X {0, 1} \X NullableTimes \X {"flight", "full"}} :
        Defects(r, 0) <= 1}

\* Rows that differ in what get_recent_flights reads
RecentRows ==
    {Row("A", "MANUAL", x[1], x[2], x[3], NoInt, x[4], NULL) :
        x \in {0, 1} \X {0, 1} \X NullableTimes \X {"flight", "full"}}

\* Rows that differ in what get_flight_stats reads, and one row for each way
\* the aggregate leaves a row out (not an own flight; no Flight row)
StatsRows ==
    {Row("A", "MANUAL", 1, 0, x[1], x[2], "flight", NULL) :
        x \in NullableTimes \X ({NoInt} \cup {Some(k * 100) : k \in 0..MaxDist})}
    \cup {Row("A", "MANUAL", 0, 0, Some(MaxTime), Some(100), "flight", NULL),
          Row("A", "MANUAL", 1, 0, Some(MaxTime), Some(100), "none", NULL)}

EngineInit(S, T) ==
    /\ db \in S
    /\ now \in T
    /\ dbExists = TRUE
    /\ faulty = FALSE
    /\ argv = <<>>
    /\ pc = "engine"
    /\ stdout = <<>>
    /\ exitCode = NoInt
    /\ calls = <<>>
    /\ ret = <<>>

\* One direct call of an engine operation: x is one of its possible executions
Returns(op, args, x) ==
    /\ pc' = "returned"
    /\ calls' = x.calls
    /\ ret' = <<[op |-> op, args |-> args, at |-> now, value |-> x.value]>>
    /\ UNCHANGED <<db, dbExists, faulty, argv, now, stdout, exitCode>>

CallGetMainUserId ==
    /\ pc = "engine"
    /\ \E u \in get_main_user_id(db) :
        Returns("get_main_user_id", <<>>,
                [calls |-> <<Call("get_main_user_id", u)>>, value |-> u])

CallListUpcoming ==
    /\ pc = "engine"
    /\ \E limit \in -1..MaxLimit, include_friends \in BOOLEAN :
        \E x \in list_upcoming_flights(db, now, limit, include_friends) :
            Returns("list_upcoming_flights", <<limit, include_friends>>, x)

CallGetNextFlight ==
    /\ pc = "engine"
    /\ \E x \in get_next_flight(db, now) : Returns("get_next_flight", <<>>, x)

CallGetRecentFlights ==
    /\ pc = "engine"
    /\ \E limit \in -1..MaxLimit :
        \E x \in get_recent_flights(db, now, limit) :
            Returns("get_recent_flights", <<limit>>, x)

\* get_flight_stats may be called again and again; ret keeps the last two calls
CallGetFlightStats ==
    /\ pc = "engine"
    /\ \E x \in get_flight_stats(db, now) :
          LET rec == [op |-> "get_flight_stats", args |-> <<>>, at |-> now,
                      value |-> x.value]
          IN  /\ calls' = x.calls
              /\ ret' = IF ret = <<>> THEN <<rec>> ELSE <<ret[Len(ret)], rec>>
    /\ UNCHANGED <<db, dbExists, faulty, argv, now, pc, stdout, exitCode>>

\* The system clock advances between calls
Tick ==
    /\ pc = "engine"
    /\ now < MaxTime
    /\ now' = now + 1
    /\ UNCHANGED <<db, dbExists, faulty, argv, pc, stdout, exitCode, calls, ret>>

UserInit == EngineInit(Stores(UserRows, MaxRows), {0})
UserNext == CallGetMainUserId
UserSpec == UserInit /\ [][UserNext]_vars

UpcomingInit == EngineInit(Stores(UpcomingRows, MaxFlights), {0})
UpcomingNext == CallListUpcoming \/ CallGetNextFlight
UpcomingSpec == UpcomingInit /\ [][UpcomingNext]_vars

StatsInit == EngineInit(Stores(StatsRows, MaxFlights), {0})
StatsNext == CallGetFlightStats \/ Tick
StatsSpec == StatsInit /\ [][StatsNext]_vars

RecentInit == EngineInit(Stores(RecentRows, MaxFlights), {MaxTime})
RecentNext == CallGetRecentFlights
RecentSpec == RecentInit /\ [][RecentNext]_vars

-----------------------------------------------------------------------------
(* On-date and by-confirmation queries *)

\* The date string of the model that names a calendar day, and the instants
\* strptime (00:00:00) and replace(hour=23, minute=59, second=59) give for it
ValidDate == "2024-01-15"
strptime(date_str) == IF date_str = ValidDate THEN Some(0) ELSE NoInt
EndOfDay(start_ts) == start_ts + 1

InvalidDate(date_str) == [error |-> "Invalid date format", input |-> date_str]

\* get_flights_on_date: ValueError from strptime gives the error result, no statement run
get_flights_on_date(d, date_str) ==
    IF IsNull(strptime(date_str))
    THEN {[calls |-> <<>>, value |-> InvalidDate(date_str)]}
    ELSE LET start_ts == Val(strptime(date_str))
             end_ts == EndOfDay(start_ts)
         IN  {[calls |-> <<Call("get_flights_on_date", "")>>,
               value |-> [date |-> date_str, flights |-> Fetch(d, s), count |-> Len(s)]] :
                 s \in OrderBy(d, {i \in DOMAIN d :
                                     /\ FullJoin(d[i]) /\ d[i].isMyFlight = 1
                                     /\ ~IsNull(d[i].departure)
                                     /\ Val(d[i].departure) >= start_ts
                                     /\ Val(d[i].departure) <= end_ts}, FALSE)}

\* t.pnr LIKE '%' || pnr || '%', for the confirmation codes and arguments of the model
SamplePnr == "ABC1"
Like(code, pnr) == code = SamplePnr /\ pnr = "1"

\* search_by_confirmation: Ticket is inner-joined, so a row without ticket is dropped
search_by_confirmation(d, pnr) ==
    {[calls |-> <<Call("search_by_confirmation", "")>>,
      value |-> [confirmation |-> pnr, flights |-> Fetch(d, s), count |-> Len(s)]] :
        s \in OrderBy(d, {i \in DOMAIN d : /\ FullJoin(d[i]) /\ d[i].pnr # NULL
                                           /\ Like(d[i].pnr, pnr)}, FALSE)}

-----------------------------------------------------------------------------
(* Command Router: main *)

Commands == {"list", "next", "date", "pnr", "stats", "recent"}
Aliases == {"--list", "--next", "--date", "--pnr", "--stats", "--recent"}

\* str.startswith("--"), str.isdigit() and int() on the argument strings of the model
StartsWithDashes(tok) == tok \in Aliases \cup {"--include-friends"}
IsDigit(tok) == tok \in {"1", "sup2"}      \* "sup2": a superscript two
ParseInt(tok) == CASE tok = "1" -> Some(1) [] tok = "-1" -> Some(-1) [] OTHER -> NoInt

DefaultLimit == 20

\* command = sys.argv[1] if not sys.argv[1].startswith("--") else "list"
Command(args) == IF ~StartsWithDashes(args[1]) THEN args[1] ELSE "list"

Raise(cs, msg) == [raised |-> TRUE, calls |-> cs, value |-> [error |-> msg]]
Return(x) == [raised |-> FALSE, calls |-> x.calls, value |-> x.value]

\* A statement on a faulty store raises at the first execute(); otherwise the
\* operation's executions X return
Query(first, X) ==
    IF faulty THEN {Raise(<<Call(first, "raised")>>, "OperationalError")}
    ELSE {Return(x) : x \in X}

\* for arg in sys.argv[2:]: the flag, and the last digit string as the limit
ListArgs(args) ==
    LET rest == SubSeq(args, 2, Len(args))
        digits == {i \in DOMAIN rest : rest[i] # "--include-friends" /\ IsDigit(rest[i])}
        last == CHOOSE i \in digits : \A j \in digits : j <= i
    IN  [include_friends |-> \E i \in DOMAIN rest : rest[i] = "--include-friends",
         bad |-> \E i \in digits : IsNull(ParseInt(rest[i])),
         limit |-> IF digits = {} \/ IsNull(ParseInt(rest[last]))
                   THEN DefaultLimit ELSE Val(ParseInt(rest[last]))]

\* The try block of main for the given command: what is run, and the result
\* or the exception
Execute(command, args) ==
    CASE command \in {"list", "--list"} ->
            IF ListArgs(args).bad THEN {Raise(<<>>, "ValueError")}
            ELSE Query("get_main_user_id",
                       list_upcoming_flights(db, now, ListArgs(args).limit,
                                             ListArgs(args).include_friends))
      [] command \in {"next", "--next"} ->
            Query("get_main_user_id", get_next_flight(db, now))
      [] command \in {"date", "--date"} ->
            IF Len(args) < 2
            THEN {Return([calls |-> <<>>, value |-> [error |-> "Usage: date YYYY-MM-DD"]])}
            ELSE IF IsNull(strptime(args[2]))
                 THEN {Return(x) : x \in get_flights_on_date(db, args[2])}
                 ELSE Query("get_flights_on_date", get_flights_on_date(db, args[2]))
      [] command \in {"pnr", "--pnr"} ->
            IF Len(args) < 2
            THEN {Return([calls |-> <<>>, value |-> [error |-> "Usage: pnr <confirmation_code>"]])}
            ELSE Query("search_by_confirmation", search_by_confirmation(db, args[2]))
      [] command \in {"stats", "--stats"} ->
            Query("get_flight_stats", get_flight_stats(db, now))
      [] command \in {"recent", "--recent"} ->
            IF Len(args) > 1 /\ IsNull(ParseInt(args[2]))
            THEN {Raise(<<>>, "ValueError")}
            ELSE Query("get_recent_flights",
                       get_recent_flights(db, now,
                           IF Len(args) > 1 THEN Val(ParseInt(args[2])) ELSE DefaultLimit))
      [] OTHER ->
            {Return([calls |-> <<>>, value |-> [error |-> "Unknown command", command |-> command]])}

\* print(json.dumps(...)); sys.exit(status)
PrintAndExit(obj, status) ==
    /\ stdout' = Append(stdout, obj)
    /\ exitCode' = Some(status)
    /\ pc' = "exited"

\* if len(sys.argv) < 2: usage error, exit 1
MainArgsMutExitZero ==
    /\ pc = "start"
    /\ IF Len(argv) < 1
       THEN PrintAndExit([error |-> "Usage: query_flights.py <command> [args]"], 0)
       ELSE pc' = "check_db" /\ UNCHANGED <<stdout, exitCode>>
    /\ UNCHANGED <<db, dbExists, faulty, argv, now, calls, ret>>

MainArgs ==
    /\ pc = "start"
    /\ IF Len(argv) < 1
       THEN PrintAndExit([error |-> "Usage: query_flights.py <command> [args]"], 1)
       ELSE pc' = "check_db" /\ UNCHANGED <<stdout, exitCode>>
    /\ UNCHANGED <<db, dbExists, faulty, argv, now, calls, ret>>

\* db_path, error = get_db_path(); if error: print, exit 1
MainCheckDbMutNoExit ==
    /\ pc = "check_db"
    /\ IF ~dbExists
       THEN /\ stdout' = Append(stdout, [error |-> "Database not found"])
            /\ pc' = "execute" /\ UNCHANGED exitCode
       ELSE pc' = "execute" /\ UNCHANGED <<stdout, exitCode>>
    /\ UNCHANGED <<db, dbExists, faulty, argv, now, calls, ret>>

MainCheckDb ==
    /\ pc = "check_db"
    /\ IF ~dbExists
       THEN PrintAndExit([error |-> "Database not found"], 1)
       ELSE pc' = "execute" /\ UNCHANGED <<stdout, exitCode>>
    /\ UNCHANGED <<db, dbExists, faulty, argv, now, calls, ret>>

\* try: connect, dispatch, close, print(result); except Exception: print(error), exit 1
MainExecute ==
    /\ pc = "execute"
    /\ \E o \in Execute(Command(argv), argv) :
          /\ calls' = o.calls
          /\ PrintAndExit(o.value, IF o.raised THEN 1 ELSE 0)
    /\ UNCHANGED <<db, dbExists, faulty, argv, now, ret>>

\* Argument strings: any of them may come first; after the command, those that
\* the router tells apart (the flag, digit strings, a signed number, a date, other text)
FirstTokens == Commands \cup Aliases \cup {"--include-friends", "bogus"}
ArgTokens == {"--include-friends", "1", "-1", "sup2", "bogus", ValidDate}

ArgLists ==
    {<<>>} \cup UNION {{<<c>> \o rest : c \in FirstTokens, rest \in [1..k -> ArgTokens]} :
                         k \in 0..(MaxArgs - 1)}

\* A store with an upcoming ticketed flight and a past flight of the primary
\* user A, and an upcoming flight imported from friend B
SampleStore ==
    <<Row("A", "MANUAL", 1, 0, Some(0), Some(100), "full", NULL),
      Row("A", "MANUAL", 1, 0, Some(MaxTime), Some(100), "full", SamplePnr),
      Row("B", CONNECTED_FRIEND, 1, 0, Some(MaxTime), NoInt, "full", NULL)>>

Init ==
    /\ db \in {<<>>, SampleStore}
    /\ now = 1
    /\ dbExists \in BOOLEAN
    /\ faulty \in BOOLEAN
    /\ argv \in ArgLists
    /\ pc = "start"
    /\ stdout = <<>>
    /\ exitCode = NoInt
    /\ calls = <<>>
    /\ ret = <<>>

Next == MainArgs \/ MainCheckDb \/ MainExecute

Spec == Init /\ [][Next]_vars

-----------------------------------------------------------------------------
(* Properties of the Identity Resolver and of the upcoming/recent queries *)

Returned(op) == pc = "returned" /\ ret # <<>> /\ ret[Len(ret)].op = op
Last == ret[Len(ret)]

\* UserFlight rows of user u with a non-null, non-empty, non-CONNECTED_FRIEND importSource
DirectRows(u) ==
    {i \in DOMAIN db : /\ db[i].userId = u
                       /\ db[i].importSource \notin {NULL, "", CONNECTED_FRIEND}}

PrimaryUser == calls[1].out

\* C1: list_upcoming_flights with include_friends = false returns no flight
\* whose UserFlight row has importSource CONNECTED_FRIEND and none whose
\* userId differs from the user id get_main_user_id returned, whatever the
\* store and the limit.
C1_ListExcludesFriends ==
    (Returned("list_upcoming_flights") /\ Last.args[2] = FALSE) =>
        /\ calls[1].op = "get_main_user_id"
        /\ \A k \in DOMAIN Last.value.flights :
              /\ Last.value.flights[k].importSource # CONNECTED_FRIEND
              /\ Last.value.flights[k].userId = PrimaryUser

\* A flight is listed, and the store also holds an upcoming own flight that
\* only its CONNECTED_FRIEND importSource keeps out
C1_Witness ==
    /\ Returned("list_upcoming_flights") /\ Last.args[2] = FALSE
    /\ Last.value.count >= 1
    /\ \E i \in DOMAIN db : /\ db[i].importSource = CONNECTED_FRIEND
                            /\ Defects(db[i], now) = 1

\* Rows the claim's filter keeps: isMyFlight = 1, departure after now, the
\* primary user's, importSource (present and) different from CONNECTED_FRIEND
NextCandidates ==
    {i \in DOMAIN db : /\ db[i].isMyFlight = 1
                       /\ ~IsNull(db[i].departure) /\ Val(db[i].departure) > now
                       /\ db[i].userId = PrimaryUser
                       /\ db[i].importSource \notin {NULL, CONNECTED_FRIEND}}

\* get_next_flight's value is the earliest of the rows S, or the message when S is empty
NextIsEarliestOf(S) ==
    IF S = {}
    THEN Last.value = [next_flight |-> <<>>, message |-> NoFlightsMessage]
    ELSE /\ DOMAIN Last.value = {"next_flight"}
         /\ \E i \in S : /\ Last.value.next_flight = <<db[i]>>
                         /\ \A j \in S : Val(db[i].departure) <= Val(db[j].departure)

\* C8 as stated: next_flight is the earliest flight with isMyFlight = 1,
\* departure after now, the primary user's userId and an importSource other
\* than CONNECTED_FRIEND; with no such flight, null and the message.
C8_NextIsEarliestCandidate ==
    Returned("get_next_flight") => NextIsEarliestOf(NextCandidates)

\* C8 as amended: the same, among the flights whose Airline, departure Airport
\* and actual arrival Airport rows exist (the inner joins of the query).
C8_NextIsEarliestJoinedCandidate ==
    Returned("get_next_flight") =>
        NextIsEarliestOf({i \in NextCandidates : db[i].join = "full"})

\* Two candidates with different departures in the store, the earlier returned
C8_Witness ==
    /\ Returned("get_next_flight")
    /\ \E i, j \in NextCandidates :
          /\ db[i].join = "full" /\ db[j].join = "full"
          /\ Val(db[i].departure) < Val(db[j].departure)
          /\ Last.value.next_flight = <<db[i]>>

\* C10: when no UserFlight row has a non-null, non-empty, non-CONNECTED_FRIEND
\* importSource, list_upcoming_flights without friends returns no flight and
\* count 0, and get_next_flight the no-flights message, whatever upcoming
\* flights the store holds.
C10_NoPrimaryUserNoFlights ==
    (\A u \in Users : DirectRows(u) = {}) =>
        /\ (Returned("list_upcoming_flights") /\ Last.args[2] = FALSE) =>
              Last.value = [flights |-> <<>>, count |-> 0]
        /\ Returned("get_next_flight") =>
              Last.value = [next_flight |-> <<>>, message |-> NoFlightsMessage]

\* No primary user, yet an upcoming own flight that every other filter keeps
C10_Witness ==
    /\ \A u \in Users : DirectRows(u) = {}
    /\ \E i \in DOMAIN db : Defects(db[i], now) = 0
    /\ Returned("get_next_flight")
    /\ Last.value.message = NoFlightsMessage

\* C2 as stated: get_recent_flights(limit N) returns at most N rows (none for
\* a negative N), each from a row with isMyFlight = 1, isArchived = 0 and a
\* departure before now.
C2_RecentAtMostLimit ==
    Returned("get_recent_flights") =>
        /\ Last.value.count <= (IF Last.args[1] < 0 THEN 0 ELSE Last.args[1])
        /\ Last.value.count = Len(Last.value.recent_flights)
        /\ \A k \in DOMAIN Last.value.recent_flights :
              LET f == Last.value.recent_flights[k]
              IN  /\ f.isMyFlight = 1 /\ f.isArchived = 0
                  /\ ~IsNull(f.departure) /\ Val(f.departure) < now

\* The part of C2 the code keeps for every limit: only own, unarchived, past
\* flights are returned, and at most N of them when N >= 0.
RecentFilterHolds ==
    Returned("get_recent_flights") =>
        /\ Last.args[1] >= 0 => Last.value.count <= Last.args[1]
        /\ \A k \in DOMAIN Last.value.recent_flights :
              LET f == Last.value.recent_flights[k]
              IN  /\ f.isMyFlight = 1 /\ f.isArchived = 0
                  /\ ~IsNull(f.departure) /\ Val(f.departure) < now

-----------------------------------------------------------------------------
(* Properties of get_flight_stats *)

TwoStatsCalls ==
    Len(ret) = 2 /\ ret[1].op = "get_flight_stats" /\ ret[2].op = "get_flight_stats"

\* C7 as stated: two consecutive get_flight_stats calls on an unmodified store
\* return identical output, the clock being free to advance between them.
C7_StatsIdentical == TwoStatsCalls => ret[1].value = ret[2].value

\* Own flights that depart after the first call's clock reading and not after the second's
DepartedBetween ==
    {i \in DOMAIN db : /\ db[i].isMyFlight = 1 /\ db[i].join # "none"
                       /\ ~IsNull(db[i].departure)
                       /\ ret[1].at < Val(db[i].departure)
                       /\ Val(db[i].departure) <= ret[2].at}

\* C7 as amended: the two calls return identical total_flights,
\* total_distance_km, total_distance_miles and earth_circumferences;
\* upcoming_flights is null in both or drops by the number of own flights
\* that departed between the two clock readings (identical when there is none).
C7_StatsIdenticalUpToDepartures ==
    TwoStatsCalls =>
        LET a == ret[1].value
            b == ret[2].value
        IN  /\ a.total_flights = b.total_flights
            /\ a.total_distance_km = b.total_distance_km
            /\ a.total_distance_miles = b.total_distance_miles
            /\ a.earth_circumferences = b.earth_circumferences
            /\ IsNull(a.upcoming_flights) <=> IsNull(b.upcoming_flights)
            /\ ~IsNull(a.upcoming_flights) =>
                  Val(b.upcoming_flights)
                      = Val(a.upcoming_flights) - Cardinality(DepartedBetween)

\* The clock advanced between the two calls and an own flight with a distance
\* departed meanwhile
C7_Witness ==
    /\ TwoStatsCalls
    /\ ret[1].at < ret[2].at
    /\ DepartedBetween # {}
    /\ ret[2].value.total_distance_miles > 0

-----------------------------------------------------------------------------
(* Properties of main *)

Exited == pc = "exited"

\* The operation the first argument selects: an argument that starts with
\* two dashes selects list
Selected == IF argv[1] \in Aliases \cup {"--include-friends"} THEN "list" ELSE argv[1]

\* The invocation reaches a statement on the store
RunsStatement ==
    /\ argv # <<>>
    /\ \/ Selected \in {"list", "next", "stats", "recent"}
       \/ Selected = "date" /\ Len(argv) >= 2 /\ argv[2] = ValidDate
       \/ Selected = "pnr" /\ Len(argv) >= 2

\* int() rejects the limit: recent's second argument is no integer, or list
\* is given a digit string that is no decimal number
LimitRejected ==
    /\ argv # <<>>
    /\ \/ Selected = "recent" /\ Len(argv) >= 2 /\ argv[2] \notin {"1", "-1"}
       \/ Selected = "list" /\ \E i \in 2..Len(argv) : argv[i] = "sup2"

\* Empty results aside, the outcomes the payload alone reports: unknown
\* command, missing date or confirmation code, invalid date
ValidationError ==
    /\ argv # <<>>
    /\ \/ Selected \notin Commands
       \/ Selected \in {"date", "pnr"} /\ Len(argv) < 2
       \/ Selected = "date" /\ Len(argv) >= 2 /\ argv[2] # ValidDate

\* C3 as stated: main exits non-zero if and only if the database file is
\* unreachable or a fault is raised while executing the query; every other
\* outcome exits with success status.
C3_NonZeroIffUnreachableOrFault ==
    Exited => (exitCode # Some(0) <=> (~dbExists \/ (faulty /\ RunsStatement)))

\* C3 as amended: main exits non-zero if and only if no command argument is
\* given, the database file is unreachable, or an exception is raised in the
\* try block (a fault of the store while a statement runs, or int() rejecting
\* a limit argument); every other outcome (empty result, invalid date, missing
\* date or confirmation code, unknown command) exits with status 0 and carries
\* the condition in the payload.
C3_NonZeroIffUsageUnreachableOrException ==
    Exited =>
        /\ exitCode \in {Some(0), Some(1)}
        /\ exitCode # Some(0) <=>
              (argv = <<>> \/ ~dbExists \/ LimitRejected \/ (faulty /\ RunsStatement))
        /\ exitCode # Some(0) => "error" \in DOMAIN stdout[1]
        /\ (exitCode = Some(0) /\ ValidationError) => "error" \in DOMAIN stdout[1]

\* No argument at all, with the database in place: usage error, status 1
C3_Witness ==
    /\ Exited /\ argv = <<>> /\ dbExists /\ ~faulty
    /\ exitCode = Some(1)
    /\ "error" \in DOMAIN stdout[1]

\* C4: on every path through main exactly one JSON object is written to
\* standard output before the process ends: none is written twice, the
\* process ends only after writing one, and no path stops short of the end.
C4_ExactlyOneJsonObject ==
    /\ Len(stdout) <= 1
    /\ Exited <=> Len(stdout) = 1
    /\ Exited <=> ~IsNull(exitCode)
    /\ ~Exited => ENABLED Next

\* A fault raised by the store during the query: one error object, status 1
C4_Witness ==
    /\ Exited /\ argv # <<>> /\ dbExists /\ faulty
    /\ \E k \in DOMAIN calls : calls[k].out = "raised"
    /\ Len(stdout) = 1
    /\ exitCode = Some(1)

Unalias(tok) ==
    CASE tok = "--list" -> "list" [] tok = "--next" -> "next" [] tok = "--date" -> "date"
      [] tok = "--pnr" -> "pnr" [] tok = "--stats" -> "stats" [] tok = "--recent" -> "recent"
      [] OTHER -> tok

\* C5: with first argument "--" + c, for c one of list, next, date, pnr,
\* stats, recent, main runs the same Query Engine operation and yields the
\* same result as with first argument c and the same remaining arguments.
C5_AliasRunsSameOperation ==
    (Exited /\ argv # <<>> /\ argv[1] \in Aliases /\ dbExists) =>
        \E o \in Execute(Unalias(argv[1]), argv) :
            /\ calls = o.calls
            /\ stdout = <<o.value>>
            /\ exitCode = Some(IF o.raised THEN 1 ELSE 0)

\* C9: the Identity Resolver runs only when upcoming flights are requested
\* without friends: never for list with --include-friends, and never for
\* date, pnr, stats or recent.
C9_ResolverOnlyWithoutFriends ==
    (\E k \in DOMAIN calls : calls[k].op = "get_main_user_id") =>
        /\ argv # <<>>
        /\ argv[1] \notin {"date", "pnr", "stats", "recent"}
        /\ \A i \in 2..Len(argv) : argv[i] # "--include-friends"

====
